---- MODULE Spec2Model ----
\* hosting.de DNS provider (providers/dns/hostingde/hostingde.go): the
\* record-lifecycle client.  One DNSProvider is constructed, then callers
\* issue Present / CleanUp calls, each one request/response exchange with the
\* provider's zoneUpdate endpoint.
EXTENDS Integers, Sequences, FiniteSets, TLC

----------------------------------------------------------------------------
\* Bounds of the model.

\* number of calls explored in one behaviour of a single caller
MaxCalls == 3
\* number of calls explored in one behaviour of concurrent callers
MaxConcCalls == 2
\* number of bytes (tokens) the provider may send after the JSON document
MaxTrailing == 1
\* seconds of waiting one Tick step stands for
TickSeconds == 30

\* Program constants.
\* http.Client{Timeout: 30 * time.Second}
ClientTimeout == 30
\* acme.DefaultTTL, the ttl acme.DNS01Record returns
DefaultTTL == 120

HostingdeAPIURL == "https://secure.hosting.de/api/dns/v1/json"

\* Inputs.
Callers == {"g1", "g2"}
Keys == {"", "key"}
ZoneNames == {"", "example.com"}
\* (domain, keyAuth) of the challenges: two of one domain, one of another
Challenges == { [domain |-> <<"a">>, keyAuth |-> "ka1"],
                [domain |-> <<"a">>, keyAuth |-> "ka2"],
                [domain |-> <<"a", ".">>, keyAuth |-> "ka1"] }

Min(a, b) == IF a < b THEN a ELSE b

----------------------------------------------------------------------------
\* Errors.  A Go error value is a record; NoError is the nil error.

NoError == [kind |-> "nil"]
ConfigError == [kind |-> "config", msg |-> "Hostingde: API key or Zone Name missing"]
TransportError(cause) ==
    [kind |-> "transport", msg |-> "error querying Hostingde API -> ", cause |-> cause]
DecodeError(cause) == [kind |-> "decode", cause |-> cause]
APIError(url, strBody) ==
    [kind |-> "api", msg |-> "Hostingde API error: the request ", url |-> url, text |-> strBody]

----------------------------------------------------------------------------
\* Construction.

NoProvider == [set |-> FALSE]

\* variant: only the key is checked
NewDNSProviderCredentialsKeyOnly(key, zoneName) ==
    IF key = ""
    THEN [d |-> NoProvider, err |-> ConfigError]
    ELSE [d |-> [set |-> TRUE, authKey |-> key, zoneName |-> zoneName,
                 client |-> [Timeout |-> ClientTimeout]],
          err |-> NoError]

\* variant: the http.Client is made without a Timeout
NewDNSProviderCredentialsNoTimeout(key, zoneName) ==
    IF key = "" \/ zoneName = ""
    THEN [d |-> NoProvider, err |-> ConfigError]
    ELSE [d |-> [set |-> TRUE, authKey |-> key, zoneName |-> zoneName,
                 client |-> [Timeout |-> 0]],
          err |-> NoError]

\* NewDNSProviderCredentials(key, zoneName): (*DNSProvider, error)
NewDNSProviderCredentials(key, zoneName) ==
    IF key = "" \/ zoneName = ""
    THEN [d |-> NoProvider, err |-> ConfigError]
    ELSE [d |-> [set |-> TRUE, authKey |-> key, zoneName |-> zoneName,
                 client |-> [Timeout |-> ClientTimeout]],
          err |-> NoError]

----------------------------------------------------------------------------
\* The challenge record (package acme).  A name is a sequence of characters.

\* acme.DNS01Record(domain, keyAuth): fqdn, value, ttl
DNS01Record(domain, keyAuth) ==
    [fqdn  |-> <<"_acme-challenge", ".">> \o domain \o <<".">>,
     value |-> <<"sha256", keyAuth>>,
     ttl   |-> DefaultTTL]

\* acme.UnFqdn(name): name without its trailing dot
UnFqdn(name) ==
    IF Len(name) # 0 /\ name[Len(name)] = "."
    THEN SubSeq(name, 1, Len(name) - 1)
    ELSE name

----------------------------------------------------------------------------
\* Request structs (Go field names) and their JSON encoding (json tags).

\* variant: the name keeps its trailing dot
PresentRecordsFqdn(fqdn, value, ttl) ==
    << [Type |-> "TXT", Name |-> fqdn, Content |-> value, TTL |-> ttl] >>

\* rec := []RecordsAddRequest{...} of Present
PresentRecords(fqdn, value, ttl) ==
    << [Type |-> "TXT", Name |-> UnFqdn(fqdn), Content |-> value, TTL |-> ttl] >>

\* variant: the name keeps its trailing dot
CleanUpRecordsFqdn(fqdn, value) ==
    << [Type |-> "TXT", Name |-> fqdn, Content |-> value] >>

\* rec := []RecordsDeleteRequest{...} of CleanUp
CleanUpRecords(fqdn, value) ==
    << [Type |-> "TXT", Name |-> UnFqdn(fqdn), Content |-> value] >>

\* req := ZoneUpdateRequest{...} of Present
PresentRequest(d, domain, keyAuth) ==
    LET rr == DNS01Record(domain, keyAuth)
    IN  [AuthToken          |-> d.authKey,
         ZoneConfigSelector |-> [Name |-> d.zoneName],
         RecordsToAdd       |-> PresentRecords(rr.fqdn, rr.value, rr.ttl),
         RecordsToDelete    |-> << >>]

\* req := ZoneUpdateRequest{...} of CleanUp
CleanUpRequest(d, domain, keyAuth) ==
    LET rr == DNS01Record(domain, keyAuth)
    IN  [AuthToken          |-> d.authKey,
         ZoneConfigSelector |-> [Name |-> d.zoneName],
         RecordsToAdd       |-> << >>,
         RecordsToDelete    |-> CleanUpRecords(rr.fqdn, rr.value)]

\* json.Marshal of a RecordsAddRequest
MarshalAdd(r) ==
    [name |-> r.Name, type |-> r.Type, content |-> r.Content, ttl |-> r.TTL]

\* json.Marshal of a RecordsDeleteRequest
MarshalDelete(r) ==
    [name |-> r.Name, type |-> r.Type, content |-> r.Content]

\* json.Marshal of a ZoneUpdateRequest
Marshal(req) ==
    [authToken       |-> req.AuthToken,
     zoneConfig      |-> [name |-> req.ZoneConfigSelector.Name],
     recordsToAdd    |-> [i \in DOMAIN req.RecordsToAdd |-> MarshalAdd(req.RecordsToAdd[i])],
     recordsToDelete |-> [i \in DOMAIN req.RecordsToDelete |->
                             MarshalDelete(req.RecordsToDelete[i])]]

\* http.NewRequest(method, HostingdeAPIURL + uri, body)
NewRequest(method, uri, body) ==
    [method |-> method, url |-> <<HostingdeAPIURL, uri>>, body |-> body]

----------------------------------------------------------------------------
\* Response decoding.

Field(obj, key, zero) == IF key \in DOMAIN obj THEN obj[key] ELSE zero

\* one element of ZoneUpdateResponse.Response.Records, decoded from a JSON
\* object: the struct's fields are filled from their json tags, every other
\* key of the object is dropped
DecodeRecord(obj) ==
    [Content          |-> Field(obj, "content", <<>>),
     Type             |-> Field(obj, "type", ""),
     ID               |-> Field(obj, "id", ""),
     LastChangeDate   |-> Field(obj, "lastChangeDate", ""),
     Priority         |-> Field(obj, "priority", ""),
     RecordTemplateID |-> Field(obj, "recordTemplateId", ""),
     ZoneConfigID     |-> Field(obj, "zoneConfigId", ""),
     TTL              |-> Field(obj, "ttl", 0)]

\* json Decode of a JSON document into ZoneUpdateResponse (the fields the
\* client reads: Status and Response.Records)
DecodeResponse(doc) ==
    LET recs == Field(Field(doc, "response", [records |-> << >>]), "records", << >>)
    IN  [Status   |-> Field(doc, "status", ""),
         Response |-> [Records |-> [i \in DOMAIN recs |-> DecodeRecord(recs[i])]]]

\* var r ZoneUpdateResponse
ZeroResponse == [Status |-> "", Response |-> [Records |-> << >>]]

----------------------------------------------------------------------------
\* The provider and the response body.  A body is a sequence of tokens: the
\* first is the document the provider sent (a JSON object, or text that is
\* not JSON), the others are bytes that follow it.

JSONToken(doc) == [tok |-> "json", doc |-> doc]
GarbageToken == [tok |-> "garbage"]
TrailingToken == [tok |-> "ws"]

Trailing(k) == [i \in 1..k |-> TrailingToken]

\* the record as the provider reports it back: the fields sent, and its own
Echo(rec) ==
    [name |-> rec.name, type |-> rec.type, content |-> rec.content, ttl |-> rec.ttl,
     id |-> "id1", zoneConfigId |-> "zc1"]

Statuses == {"success", "error"}

\* the documents the provider may answer a request with
ResponseDocs(reqBody) ==
    LET lists == { << >>, [i \in DOMAIN reqBody.recordsToAdd |-> Echo(reqBody.recordsToAdd[i])] }
    IN  { [status |-> s, response |-> [records |-> l]] : s \in Statuses, l \in lists }
          \cup { [response |-> [records |-> l]] : l \in lists }

ResponseBodies(reqBody) ==
    { <<t>> \o Trailing(k) :
        t \in { JSONToken(doc) : doc \in ResponseDocs(reqBody) } \cup {GarbageToken},
        k \in 0..MaxTrailing }

\* whether the provider accepted the update (it then answers status success)
Accepted(body) ==
    /\ body[1].tok = "json"
    /\ "status" \in DOMAIN body[1].doc
    /\ body[1].doc.status = "success"

RecordKey(rec) == [name |-> rec.name, type |-> rec.type, content |-> rec.content]

\* a provider that keeps its records as a set keyed by (name, type, content)
ApplyUpdate(records, reqBody) ==
    (records \cup { RecordKey(reqBody.recordsToAdd[i]) : i \in DOMAIN reqBody.recordsToAdd })
        \ { RecordKey(reqBody.recordsToDelete[i]) : i \in DOMAIN reqBody.recordsToDelete }

----------------------------------------------------------------------------
\* doRequest once client.Do has returned a response.  n is the number of
\* tokens the decoder has read from the body when Decode returns, eof whether
\* the read that delivered the last token also reported the end of the body,
\* fail which read of the body fails, if any (the client's timeout covers the
\* reads of the body as well).

UnreadableBody == << [tok |-> "text", text |-> "Unreadable body"] >>

ReadFailures == {"none", "decode", "reread"}

\* the ways the reads of a body can go: [n, eof, fail], listed once for each
\* distinct course (n and eof play no part when the first read fails; the
\* body is re-read, to its end, only after a document whose status is not
\* success, and eof matters only when the decoder has read the whole body)
Reads(body) ==
    LET reread == body[1].tok = "json" /\ Field(body[1].doc, "status", "") # "success"
    IN  { [n |-> n, eof |-> FALSE, fail |-> "none"] : n \in 1..Len(body) }
        \cup { [n |-> Len(body), eof |-> TRUE, fail |-> "none"] :
                 n \in IF reread THEN {} ELSE {1} }
        \cup { [n |-> 1, eof |-> FALSE, fail |-> "decode"] }
        \cup { [n |-> n, eof |-> FALSE, fail |-> "reread"] :
                 n \in IF reread THEN {1} ELSE {} }

\* variant: only the status "error" is taken for a failure
doRequestResponseErrorOnly(request, body, n, eof, fail) ==
    LET atEnd == n = Len(body) /\ eof
    IN  IF fail = "decode"
        THEN [r |-> ZeroResponse, err |-> DecodeError("read"),
              sawEOF |-> FALSE, closed |-> TRUE]
        ELSE IF body[1].tok # "json"
        THEN [r |-> ZeroResponse, err |-> DecodeError("syntax"),
              sawEOF |-> atEnd, closed |-> TRUE]
        ELSE LET r == DecodeResponse(body[1].doc)
             IN  IF r.Status = "error"
                 THEN [r |-> r,
                       err |-> APIError(request.url, SubSeq(body, n + 1, Len(body))),
                       sawEOF |-> TRUE, closed |-> TRUE]
                 ELSE [r |-> r, err |-> NoError, sawEOF |-> atEnd, closed |-> TRUE]

\* variant: the body is closed at the end of the success path, not deferred
doRequestResponseCloseLast(request, body, n, eof, fail) ==
    LET atEnd == n = Len(body) /\ eof
    IN  IF fail = "decode"
        THEN [r |-> ZeroResponse, err |-> DecodeError("read"),
              sawEOF |-> FALSE, closed |-> FALSE]
        ELSE IF body[1].tok # "json"
        THEN [r |-> ZeroResponse, err |-> DecodeError("syntax"),
              sawEOF |-> atEnd, closed |-> FALSE]
        ELSE LET r == DecodeResponse(body[1].doc)
             IN  IF r.Status # "success"
                 THEN IF fail = "reread"
                      THEN [r |-> r, err |-> APIError(request.url, UnreadableBody),
                            sawEOF |-> FALSE, closed |-> FALSE]
                      ELSE [r |-> r,
                            err |-> APIError(request.url, SubSeq(body, n + 1, Len(body))),
                            sawEOF |-> TRUE, closed |-> FALSE]
                 ELSE [r |-> r, err |-> NoError, sawEOF |-> atEnd, closed |-> TRUE]

doRequestResponse(request, body, n, eof, fail) ==
    LET atEnd == n = Len(body) /\ eof
    IN  IF fail = "decode"
        THEN [r |-> ZeroResponse, err |-> DecodeError("read"),
              sawEOF |-> FALSE, closed |-> TRUE]
        ELSE IF body[1].tok # "json"
        THEN [r |-> ZeroResponse, err |-> DecodeError("syntax"),
              sawEOF |-> atEnd, closed |-> TRUE]
        ELSE LET r == DecodeResponse(body[1].doc)
             IN  IF r.Status # "success"
                 THEN IF fail = "reread"
                      THEN [r |-> r, err |-> APIError(request.url, UnreadableBody),
                            sawEOF |-> FALSE, closed |-> TRUE]
                      ELSE [r |-> r,
                            err |-> APIError(request.url, SubSeq(body, n + 1, Len(body))),
                            sawEOF |-> TRUE, closed |-> TRUE]
                 ELSE [r |-> r, err |-> NoError, sawEOF |-> atEnd, closed |-> TRUE]

----------------------------------------------------------------------------
\* State.

VARIABLES
    ctor,        \* history: the arguments and the result of the construction
    d,           \* the DNSProvider (NoProvider until constructed)
    netCalls,    \* history: number of client.Do invocations so far
    pc,          \* per caller: "idle", or "do" (blocked in client.Do)
    call,        \* per caller: the arguments of its call
    req,         \* per caller: the HTTP request of its call
    elapsed,     \* per caller: seconds its client.Do has been waiting
    sent,        \* per caller, history: client.Do invocations of its last call
    last,        \* history: the call that has just returned (until a call begins)
    zoneRecords, \* the provider's records
    pair         \* history: a Present and the CleanUp that follows it

vars == <<ctor, d, netCalls, pc, call, req, elapsed, sent, last, zoneRecords, pair>>

NoCall == [op |-> "none"]
NoRequest == [method |-> ""]
NoResp == << >>
NoLast == [via |-> "none"]
NoPair == [stage |-> "none"]

Init ==
    /\ ctor = [stage |-> "new"]
    /\ d = NoProvider
    /\ netCalls = 0
    /\ pc = [c \in Callers |-> "idle"]
    /\ call = [c \in Callers |-> NoCall]
    /\ req = [c \in Callers |-> NoRequest]
    /\ elapsed = [c \in Callers |-> 0]
    /\ sent = [c \in Callers |-> 0]
    /\ last = NoLast
    /\ zoneRecords = {}
    /\ pair = NoPair

----------------------------------------------------------------------------
\* History of a Present and the CleanUp that follows it: stage "presented"
\* when a Present was accepted by the provider and returned nil, "done" when
\* the owner's next call, a CleanUp of the same arguments, was accepted and
\* returned nil with no other accepted update in between.

PairAfter(c, accepted, err, before, after) ==
    IF accepted /\ call[c].op = "Present"
    THEN IF err.kind = "nil"
         THEN [stage |-> "presented", owner |-> c, domain |-> call[c].domain,
               keyAuth |-> call[c].keyAuth, before |-> before, after |-> after]
         ELSE NoPair
    ELSE IF accepted
    THEN IF /\ pair.stage = "presented"
            /\ pair.owner = c
            /\ pair.domain = call[c].domain
            /\ pair.keyAuth = call[c].keyAuth
            /\ err.kind = "nil"
         THEN [pair EXCEPT !.stage = "done", !.after = after]
         ELSE NoPair
    ELSE IF pair.stage # "none" /\ pair.owner = c THEN NoPair
    ELSE pair

----------------------------------------------------------------------------
\* Actions.

\* NewDNSProviderCredentials(key, zoneName)
Construct(key, zoneName) ==
    /\ ctor.stage = "new"
    /\ netCalls' = netCalls
    /\ LET res == NewDNSProviderCredentials(key, zoneName)
       IN  /\ d' = res.d
           /\ ctor' = [stage |-> "done", key |-> key, zoneName |-> zoneName,
                       err |-> res.err, netCalls |-> netCalls']
    /\ UNCHANGED <<pc, call, req, elapsed, sent, last, zoneRecords, pair>>

\* variant: the request is kept in a field of the client that all calls
\* share, so a call that begins replaces the request of the calls in flight
BeginShared(c, op, domain, keyAuth, body) ==
    /\ d.set
    /\ pc[c] = "idle"
    /\ call' = [call EXCEPT ![c] = [op |-> op, domain |-> domain, keyAuth |-> keyAuth]]
    /\ req' = [x \in Callers |->
                   IF x = c \/ pc[x] = "do" THEN NewRequest("POST", "/zoneUpdate", body)
                   ELSE req[x]]
    /\ pc' = [pc EXCEPT ![c] = "do"]
    /\ elapsed' = [elapsed EXCEPT ![c] = 0]
    /\ sent' = [sent EXCEPT ![c] = 1]
    /\ netCalls' = netCalls + 1
    /\ last' = NoLast
    /\ UNCHANGED <<ctor, d, zoneRecords, pair>>

\* a call up to the point where it blocks in client.Do: the envelope is
\* built and marshalled, the request made and handed to the transport
Begin(c, op, domain, keyAuth, body) ==
    /\ d.set
    /\ pc[c] = "idle"
    /\ call' = [call EXCEPT ![c] = [op |-> op, domain |-> domain, keyAuth |-> keyAuth]]
    /\ req' = [req EXCEPT ![c] = NewRequest("POST", "/zoneUpdate", body)]
    /\ pc' = [pc EXCEPT ![c] = "do"]
    /\ elapsed' = [elapsed EXCEPT ![c] = 0]
    /\ sent' = [sent EXCEPT ![c] = 1]
    /\ netCalls' = netCalls + 1
    /\ last' = NoLast
    /\ UNCHANGED <<ctor, d, zoneRecords, pair>>

\* d.Present(domain, token, keyAuth)
Present(c, domain, keyAuth) ==
    Begin(c, "Present", domain, keyAuth, Marshal(PresentRequest(d, domain, keyAuth)))

\* d.CleanUp(domain, token, keyAuth)
CleanUp(c, domain, keyAuth) ==
    Begin(c, "CleanUp", domain, keyAuth, Marshal(CleanUpRequest(d, domain, keyAuth)))

NoDeadline == d.client.Timeout = 0

\* time passes while caller c waits for the response
Tick(c) ==
    /\ pc[c] = "do"
    /\ ~NoDeadline
    /\ elapsed[c] < d.client.Timeout
    /\ elapsed' = [elapsed EXCEPT ![c] = Min(elapsed[c] + TickSeconds, d.client.Timeout)]
    /\ UNCHANGED <<ctor, d, netCalls, pc, call, req, sent, last, zoneRecords, pair>>

\* a call leaves doRequest and returns res.err to its caller; accepted tells
\* whether the provider has applied the update of the request, body and rd
\* are the response body and the course of its reads (history)
Return(c, via, body, rd, accepted, res) ==
    /\ pc' = [pc EXCEPT ![c] = "idle"]
    /\ call' = [call EXCEPT ![c] = NoCall]
    /\ req' = [req EXCEPT ![c] = NoRequest]
    /\ elapsed' = [elapsed EXCEPT ![c] = 0]
    /\ last' = [via |-> via, caller |-> c, call |-> call[c], req |-> req[c],
                waited |-> elapsed[c], sent |-> sent[c], resp |-> body, read |-> rd,
                err |-> res.err, r |-> res.r,
                stream |-> [obtained |-> via = "response", sawEOF |-> res.sawEOF,
                            closed |-> res.closed]]
    /\ zoneRecords' = IF accepted THEN ApplyUpdate(zoneRecords, req[c].body)
                      ELSE zoneRecords
    /\ pair' = PairAfter(c, accepted, res.err, zoneRecords, zoneRecords')
    /\ UNCHANGED <<ctor, d, netCalls, sent>>

NoRead == [n |-> 0, eof |-> FALSE, fail |-> "none"]

NoResponse(cause) ==
    [r |-> ZeroResponse, err |-> TransportError(cause), sawEOF |-> FALSE, closed |-> FALSE]

\* the client's Timeout elapses before a response has come: client.Do fails
DoTimeout(c) ==
    /\ pc[c] = "do"
    /\ ~NoDeadline
    /\ elapsed[c] >= d.client.Timeout
    /\ Return(c, "timeout", NoResp, NoRead, FALSE, NoResponse("timeout"))

\* variant: a failed client.Do is tried again
DoFailRetry(c, applied) ==
    /\ pc[c] = "do"
    /\ sent' = [sent EXCEPT ![c] = sent[c] + 1]
    /\ netCalls' = netCalls + 1
    /\ elapsed' = [elapsed EXCEPT ![c] = 0]
    /\ zoneRecords' = IF applied THEN ApplyUpdate(zoneRecords, req[c].body)
                      ELSE zoneRecords
    /\ UNCHANGED <<ctor, d, pc, call, req, last, pair>>

\* client.Do fails for another reason (connection refused, reset, ...),
\* before or after the provider has applied the update
DoFail(c, applied) ==
    /\ pc[c] = "do"
    /\ Return(c, "transport", NoResp, NoRead, applied, NoResponse("network"))

\* the provider answers within the deadline and client.Do returns the
\* response; doRequest decodes it and inspects the status
DoReturn(c, body, n, eof, fail) ==
    /\ pc[c] = "do"
    /\ NoDeadline \/ elapsed[c] < d.client.Timeout
    /\ body \in ResponseBodies(req[c].body)
    /\ n \in 1..Len(body)
    /\ Return(c, "response", body, [n |-> n, eof |-> eof, fail |-> fail], Accepted(body),
              doRequestResponse(req[c], body, n, eof, fail))

Respond(c) ==
    /\ pc[c] = "do"
    /\ \E body \in ResponseBodies(req[c].body) :
           \E rd \in Reads(body) : DoReturn(c, body, rd.n, rd.eof, rd.fail)

\* the steps of the callers in CS, as long as fewer than cap calls were made
NextOf(CS, cap) ==
    \/ \E key \in Keys, zoneName \in ZoneNames : Construct(key, zoneName)
    \/ \E c \in CS, ch \in Challenges : netCalls < cap /\ Present(c, ch.domain, ch.keyAuth)
    \/ \E c \in CS, ch \in Challenges : netCalls < cap /\ CleanUp(c, ch.domain, ch.keyAuth)
    \/ \E c \in CS : Tick(c)
    \/ \E c \in CS : DoTimeout(c)
    \/ \E c \in CS, applied \in BOOLEAN : DoFail(c, applied)
    \/ \E c \in CS : Respond(c)

\* one caller issuing its calls one after the other
Next == NextOf({"g1"}, MaxCalls)

Spec == Init /\ [][Next]_vars

\* all callers, their calls overlapping
ConcNext == NextOf(Callers, MaxConcCalls)

ConcSpec == Init /\ [][ConcNext]_vars

\* the clock advances and the timer fires: a blocked client.Do is woken up
\* by the runtime's timer
LiveSpec ==
    Spec /\ \A c \in Callers : WF_vars(Tick(c)) /\ WF_vars(DoTimeout(c))

----------------------------------------------------------------------------
\* Properties.

Returned == last.via # "none"
GotResponse == last.via = "response"

\* Decode returned nil: a response came, its reads went through and its
\* document is JSON
Decoded == GotResponse /\ last.read.fail # "decode" /\ last.resp[1].tok = "json"

\* the status field of the document the provider sent ("" when it has none)
SentStatus == Field(last.resp[1].doc, "status", "")

\* the records a Present of the challenge adds, as the provider keys them
ChallengeKey(domain, keyAuth) ==
    LET rr == DNS01Record(domain, keyAuth)
    IN  [name |-> IF rr.fqdn[Len(rr.fqdn)] = "."
                  THEN SubSeq(rr.fqdn, 1, Len(rr.fqdn) - 1) ELSE rr.fqdn,
         type |-> "TXT", content |-> rr.value]

\* C1: a Present or CleanUp call returns nil exactly when a response came
\* whose body decoded and whose decoded status is "success"; a decoded body
\* with any other status returns an API error, for both operations alike.
StatusDecidesOutcome ==
    Returned =>
        /\ last.err.kind = "nil" <=> (Decoded /\ SentStatus = "success")
        /\ (Decoded /\ SentStatus # "success") => last.err.kind = "api"

SuccessReturned ==
    /\ GotResponse
    /\ last.call.op = "CleanUp"
    /\ last.err.kind = "nil"
    /\ SentStatus = "success"

\* C2: the envelope Present sends has exactly one record to add, of type TXT,
\* with the challenge's value and ttl and the challenge's name less its
\* trailing dot, no record to delete, and the token and zone of construction.
PresentEnvelope ==
    \A c \in Callers :
        (pc[c] = "do" /\ call[c].op = "Present") =>
            LET b == req[c].body
                rr == DNS01Record(call[c].domain, call[c].keyAuth)
            IN  /\ Len(b.recordsToAdd) = 1
                /\ b.recordsToAdd[1].type = "TXT"
                /\ b.recordsToAdd[1].content = rr.value
                /\ b.recordsToAdd[1].ttl = rr.ttl
                /\ b.recordsToAdd[1].name \o <<".">> = rr.fqdn
                /\ Len(b.recordsToDelete) = 0
                /\ b.authToken = ctor.key
                /\ b.zoneConfig.name = ctor.zoneName
                /\ req[c].method = "POST"
                /\ req[c].url = <<HostingdeAPIURL, "/zoneUpdate">>

PresentSent ==
    \E c \in Callers :
        /\ pc[c] = "do"
        /\ call[c].op = "Present"
        /\ call[c].domain = <<"a", ".">>
        /\ Len(req[c].body.recordsToAdd) = 1

\* the envelope CleanUp sends: one TXT record to delete, with the name and
\* content Present adds for the same challenge, and no record to add
CleanUpEnvelope ==
    \A c \in Callers :
        (pc[c] = "do" /\ call[c].op = "CleanUp") =>
            LET b == req[c].body
                k == ChallengeKey(call[c].domain, call[c].keyAuth)
            IN  /\ Len(b.recordsToDelete) = 1
                /\ b.recordsToDelete[1].type = "TXT"
                /\ b.recordsToDelete[1].name = k.name
                /\ b.recordsToDelete[1].content = k.content
                /\ Len(b.recordsToAdd) = 0

PairKey == ChallengeKey(pair.domain, pair.keyAuth)

\* C3 as stated: CleanUp's envelope mirrors Present's, and a successful
\* Present followed by a successful CleanUp of the same arguments leaves the
\* provider's records as they were before the Present.
CleanUpRestoresRecords ==
    /\ CleanUpEnvelope
    /\ pair.stage = "done" => pair.after = pair.before

\* C3, amended: CleanUp's envelope mirrors Present's, and a successful Present
\* followed by a successful CleanUp of the same arguments leaves the
\* provider's records as they were before the Present less the record of the
\* challenge: as they were when the record was not among them before.
CleanUpRemovesRecord ==
    /\ CleanUpEnvelope
    /\ pair.stage = "presented" => PairKey \in pair.after
    /\ pair.stage = "done" =>
           /\ pair.after = pair.before \ {PairKey}
           /\ PairKey \notin pair.before => pair.after = pair.before

PresentThenCleanUp ==
    /\ pair.stage = "done"
    /\ PairKey \notin pair.before
    /\ pair.before # {}

\* C4: construction with an empty key or an empty zone name returns a
\* configuration error and no client, with both non-empty a client and no
\* error; either way no network call is made.
ConstructionChecked ==
    ctor.stage = "done" =>
        /\ (ctor.key = "" \/ ctor.zoneName = "") =>
               (~d.set /\ ctor.err.kind = "config" /\ netCalls = 0)
        /\ (ctor.key # "" /\ ctor.zoneName # "") =>
               (d.set /\ ctor.err.kind = "nil")
        /\ ctor.netCalls = 0

ConstructionRefused ==
    /\ ctor.stage = "done"
    /\ ctor.key # ""
    /\ ctor.zoneName = ""
    /\ ~d.set

\* C5: the API error of a response whose status is not "success" carries the
\* request URL and the raw text of the body the provider sent, the
\* placeholder only if the body cannot be re-read.
APIErrorCarriesBody ==
    (Returned /\ last.err.kind = "api") =>
        /\ last.err.url = last.req.url
        /\ IF last.read.fail = "reread"
           THEN last.err.text = UnreadableBody
           ELSE last.err.text = last.resp

\* C6: a call issues exactly one HTTP request whatever the outcome; a
\* transport failure, a decode failure or a status other than "success" is
\* returned as an error, never retried and never turned into nil.
OneRequestPerCall ==
    /\ \A c \in Callers : sent[c] <= 1 /\ (pc[c] = "do" => sent[c] = 1)
    /\ Returned =>
           /\ last.sent = 1
           /\ pc[last.caller] = "idle"
           /\ ~GotResponse => last.err.kind = "transport"
           /\ (GotResponse /\ ~Decoded) => last.err.kind = "decode"
           /\ (Decoded /\ SentStatus # "success") => last.err.kind = "api"

FailureReturned ==
    /\ last.via = "transport"
    /\ last.sent = 1
    /\ last.err.kind = "transport"
    /\ netCalls = MaxCalls

\* what a call that ran into the client's timeout returns: a transport
\* error after the 30 seconds, nothing decoded, no status inspected
TimeoutIsTransportError ==
    last.via = "timeout" =>
        /\ last.err.kind = "transport"
        /\ last.waited = ClientTimeout
        /\ ~last.stream.obtained
        /\ last.r = ZeroResponse

\* C7: every call eventually returns; when the transport never answers, the
\* client's 30-second timeout fires and the call returns a transport error.
EveryCallReturns ==
    /\ []TimeoutIsTransportError
    /\ \A c \in Callers : (pc[c] = "do") ~> (pc[c] = "idle")

TimedOut ==
    /\ last.via = "timeout"
    /\ last.waited = ClientTimeout
    /\ last.err.kind = "transport"

\* the envelope of the call caller c is in
OwnEnvelope(key, zoneName, cl) ==
    LET k == ChallengeKey(cl.domain, cl.keyAuth)
        adds == IF cl.op = "Present"
                THEN << [name |-> k.name, type |-> k.type, content |-> k.content,
                         ttl |-> DefaultTTL] >>
                ELSE << >>
        dels == IF cl.op = "CleanUp" THEN << k >> ELSE << >>
    IN  [authToken |-> key, zoneConfig |-> [name |-> zoneName],
         recordsToAdd |-> adds, recordsToDelete |-> dels]

SameEnvelope(b, e) ==
    /\ b.authToken = e.authToken
    /\ b.zoneConfig = e.zoneConfig
    /\ Len(b.recordsToAdd) = Len(e.recordsToAdd)
    /\ Len(b.recordsToDelete) = Len(e.recordsToDelete)
    /\ \A i \in 1..Len(e.recordsToAdd) : b.recordsToAdd[i] = e.recordsToAdd[i]
    /\ \A i \in 1..Len(e.recordsToDelete) : b.recordsToDelete[i] = e.recordsToDelete[i]

\* C8: with calls overlapping, the client's token and zone name stay those of
\* construction, each request in flight carries them and the one record of
\* the call that issued it, and a caller gets the outcome of its own exchange.
CallsAreIsolated ==
    /\ d.set => (d.authKey = ctor.key /\ d.zoneName = ctor.zoneName)
    /\ \A c \in Callers :
           pc[c] = "do" =>
               SameEnvelope(req[c].body, OwnEnvelope(ctor.key, ctor.zoneName, call[c]))
    /\ Returned =>
           /\ SameEnvelope(last.req.body, OwnEnvelope(ctor.key, ctor.zoneName, last.call))
           /\ GotResponse => last.resp \in ResponseBodies(last.req.body)
           /\ GotResponse =>
                  (last.err.kind = "nil" <=> (Decoded /\ SentStatus = "success"))

CallsOverlap ==
    /\ pc["g1"] = "do"
    /\ pc["g2"] = "do"
    /\ call["g1"].op = "Present"
    /\ call["g2"].op = "CleanUp"
    /\ call["g1"].domain # call["g2"].domain

\* the record of the request as the provider echoes it in the response
EchoReturned ==
    /\ GotResponse
    /\ last.err.kind = "nil"
    /\ last.call.op = "Present"
    /\ Len(last.resp[1].doc.response.records) = 1

\* C9: a RecordsAddRequest encoded to JSON and echoed by the provider in the
\* response's records decodes into ZoneUpdateResponse with its name and its
\* content preserved.
RoundTripKeepsNameAndContent ==
    EchoReturned =>
        LET sentRec == last.req.body.recordsToAdd[1]
            got == last.r.Response.Records
        IN  /\ Len(got) = 1
            /\ got[1].Content = sentRec.content
            /\ "Name" \in DOMAIN got[1]
            /\ got[1].Name = sentRec.name

\* C10 as stated: on every exit path that obtained a response the body is
\* fully drained and closed before the call returns; the other paths have
\* no body to release.
BodyDrainedAndClosed ==
    Returned =>
        IF last.stream.obtained
        THEN last.stream.sawEOF /\ last.stream.closed
        ELSE last.via \in {"timeout", "transport"}

\* C10, amended: on every exit path that obtained a response the body is
\* closed before the call returns, and fully drained on the path of a status
\* other than "success" whose re-read succeeds; the other paths have no body
\* to release.
BodyClosed ==
    Returned =>
        IF last.stream.obtained
        THEN /\ last.stream.closed
             /\ (last.err.kind = "api" /\ last.read.fail # "reread") => last.stream.sawEOF
        ELSE last.via \in {"timeout", "transport"} /\ last.resp = NoResp

ClosedUndrained ==
    /\ GotResponse
    /\ last.err.kind = "decode"
    /\ last.stream.closed
    /\ ~last.stream.sawEOF

====
